---- MODULE Spec2Model ----
(***************************************************************************)
(* Session/account lifecycle of the temp-mail bot (src/main.py).           *)
(*                                                                         *)
(* State: the users_temp_emails table, the provider's live accounts, the   *)
(* chat messages that carry inline keyboards, and the handler coroutines   *)
(* with their positions.  A handler is a coroutine: it yields at every     *)
(* awaited database call, so the steps of different handlers interleave    *)
(* there.  The provider client uses the synchronous requests library, so   *)
(* a provider call holds the event loop from its start to its return       *)
(* (variable busy).  Database and chat-transport calls are taken to        *)
(* succeed; every provider call may fail.  main() registers the handlers  *)
(* and takes no per-chat lock; the model lets two handlers be in flight    *)
(* at a time, for the same chat or for different chats.                    *)
(***************************************************************************)
EXTENDS Naturals, Sequences, FiniteSets, TLC

\* ---- bounds of the model ------------------------------------------------
\* Updates (commands and button presses) dispatched in one behaviour.
MaxOps == 4

\* Two chats, and at most two handlers in flight at a time.
Chats == {1, 2}
Slots == {1, 2}

VARIABLES
    store,      \* rows of users_temp_emails
    live,       \* account ids that exist at the provider
    created,    \* number of accounts the provider has created so far
    prompts,    \* chat messages that still show an inline keyboard
    tasks,      \* the handler coroutines in flight, in dispatch order
    busy,       \* index of the handler inside a blocking provider call, or 0
    started,    \* number of updates dispatched so far
    last,       \* the handler that returned in the step just taken (else Idle)
    peer,       \* the confirm_generate handler that returned while another one
                \* for the same chat was in flight (Idle once both are past)
    deleted,    \* chats whose last completed mailbox operation was a Deleted
    gone,       \* accounts for which delete_account has reported success
    cut         \* accounts whose handler a restart ended between that report
                \* and the local delete

vars == <<store, live, created, prompts, tasks, busy, started, last, peer, deleted,
          gone, cut>>

\* ---- Session Store (the users_temp_emails table) ------------------------

\* chat_id BIGINT PRIMARY KEY: the rows of a chat.
RowsOf(s, chat_id) == {r \in s : r.chat_id = chat_id}

\* INSERT without the ON CONFLICT clause (the row is added beside the old one).
StoreUserEmailInsertOnly(s, chat_id, email_data) ==
    s \cup {[chat_id |-> chat_id, address |-> email_data.address,
             account_id |-> email_data.id, token |-> email_data.token]}

\* INSERT ... ON CONFLICT (chat_id) DO NOTHING (an existing row is kept).
StoreUserEmailDoNothing(s, chat_id, email_data) ==
    IF RowsOf(s, chat_id) # {} THEN s
    ELSE s \cup {[chat_id |-> chat_id, address |-> email_data.address,
                  account_id |-> email_data.id, token |-> email_data.token]}

\* An upsert whose DO UPDATE leaves account_id out of the SET list.
StoreUserEmailPartial(s, chat_id, email_data) ==
    IF RowsOf(s, chat_id) = {}
    THEN s \cup {[chat_id |-> chat_id, address |-> email_data.address,
                  account_id |-> email_data.id, token |-> email_data.token]}
    ELSE (s \ RowsOf(s, chat_id))
             \cup {[chat_id |-> chat_id, address |-> email_data.address,
                    account_id |-> r.account_id, token |-> email_data.token] :
                        r \in RowsOf(s, chat_id)}

\* INSERT ... ON CONFLICT (chat_id) DO UPDATE SET address, account_id, token.
StoreUserEmail(s, chat_id, email_data) ==
    (s \ RowsOf(s, chat_id))
        \cup {[chat_id |-> chat_id, address |-> email_data.address,
               account_id |-> email_data.id, token |-> email_data.token]}

\* A lookup that ignores the WHERE clause's chat_id.
GetUserEmailAnyChat(s, chat_id) ==
    IF s = {} THEN {}
    ELSE LET record == CHOOSE r \in s : TRUE
         IN  {[address |-> record.address, id |-> record.account_id,
               token |-> record.token]}

\* SELECT address, account_id, token WHERE chat_id = $1; None is the empty set.
GetUserEmail(s, chat_id) ==
    IF RowsOf(s, chat_id) = {} THEN {}
    ELSE LET record == CHOOSE r \in RowsOf(s, chat_id) : TRUE
         IN  {[address |-> record.address, id |-> record.account_id,
               token |-> record.token]}

\* A delete that leaves the table as it is.
DeleteUserEmailFromDbNoop(s, chat_id) == s

\* A DELETE without the WHERE clause.
DeleteUserEmailFromDbAll(s, chat_id) == {}

\* DELETE FROM users_temp_emails WHERE chat_id = $1.
DeleteUserEmailFromDb(s, chat_id) == s \ RowsOf(s, chat_id)

\* ---- Mail provider client ------------------------------------------------

\* What the provider answers for account n.
AccountData(n) == [address |-> <<"address", n>>, id |-> n]
TokenData(n) == [token |-> <<"token", n>>]

DomainLists == {<<>>, <<"mail.tm">>}
CreateResponses == {"201", "422", "500", "connection_error"}
TokenResponses == {"200", "500", "connection_error"}
DeleteResponses == {"204", "404", "500", "connection_error"}
MessagesResponses == {"200", "200_empty", "404", "500", "connection_error"}
MessageResponses == {"200", "404", "connection_error"}

\* What get_domains returned and what POST /accounts and POST /token answered,
\* "none" for a call that was not made.
CreateAnswers ==
    {a \in DomainLists \X (CreateResponses \cup {"none"})
                       \X (TokenResponses \cup {"none"}) :
        /\ (a[2] = "none") <=> (a[1] = <<>>)
        /\ (a[3] = "none") <=> (a[2] # "201")}

\* create_account that goes on to POST /accounts with no domain.
CreateAccountIgnoreDomains(domains, rc, rt, n) ==
    IF rc = "201" /\ rt = "200"
    THEN [account_info |-> {[address |-> AccountData(n).address,
                             id |-> AccountData(n).id,
                             token |-> TokenData(n).token]},
          error |-> "",
          calls |-> <<"GET /domains", "POST /accounts", "POST /token">>]
    ELSE [account_info |-> {}, error |-> "api",
          calls |-> <<"GET /domains", "POST /accounts">>]

\* create_account that returns the account with an empty token when the token
\* call fails.
CreateAccountNoTokenCheck(domains, rc, rt, n) ==
    IF domains = <<>>
    THEN [account_info |-> {}, error |-> "domains",
          calls |-> <<"GET /domains">>]
    ELSE IF rc # "201"
    THEN [account_info |-> {}, error |-> "api",
          calls |-> <<"GET /domains", "POST /accounts">>]
    ELSE [account_info |-> {[address |-> AccountData(n).address,
                             id |-> AccountData(n).id,
                             token |-> IF rt = "200" THEN TokenData(n).token
                                       ELSE <<"token", 0>>]},
          error |-> "",
          calls |-> <<"GET /domains", "POST /accounts", "POST /token">>]

\* create_account(): (account_info, error) and the HTTP calls it made, from
\* what get_domains returned and what the two POSTs answered.
CreateAccount(domains, rc, rt, n) ==
    IF domains = <<>>
    THEN [account_info |-> {}, error |-> "domains",
          calls |-> <<"GET /domains">>]
    ELSE IF rc = "422"
    THEN [account_info |-> {}, error |-> "collision",
          calls |-> <<"GET /domains", "POST /accounts">>]
    ELSE IF rc = "500"
    THEN [account_info |-> {}, error |-> "api",
          calls |-> <<"GET /domains", "POST /accounts">>]
    ELSE IF rc = "connection_error"
    THEN [account_info |-> {}, error |-> "connection",
          calls |-> <<"GET /domains", "POST /accounts">>]
    ELSE IF rt = "500"
    THEN [account_info |-> {}, error |-> "api",
          calls |-> <<"GET /domains", "POST /accounts", "POST /token">>]
    ELSE IF rt = "connection_error"
    THEN [account_info |-> {}, error |-> "connection",
          calls |-> <<"GET /domains", "POST /accounts", "POST /token">>]
    ELSE [account_info |-> {[address |-> AccountData(n).address,
                             id |-> AccountData(n).id,
                             token |-> TokenData(n).token]},
          error |-> "",
          calls |-> <<"GET /domains", "POST /accounts", "POST /token">>]

\* The provider creates the account when POST /accounts is reached and answers 201.
AccountCreated(domains, rc) == domains # <<>> /\ rc = "201"

\* delete_account that reports success only on a 2xx answer.
DeleteAccountStrict(resp) == resp = "204"

\* delete_account that reports success whatever the provider answered.
DeleteAccountAlways(resp) == TRUE

\* delete_account(): the success flag; a 404 counts as success.
DeleteAccount(resp) == resp \in {"204", "404"}

\* The answers the provider can give to DELETE /accounts/{id}: 204 only for an
\* account it still has.  Mail.tm drops accounts on its own after some time, so
\* an account it has may be gone by the time of the call (404).
DeleteAnswers(account_id) ==
    IF account_id \in live THEN DeleteResponses
    ELSE DeleteResponses \ {"204"}

\* The provider's side of a call about an account: the account is gone after a
\* 204 to DELETE, and was gone before the call when the answer is 404.
ProviderAfter(account_id, resp) ==
    live' = IF resp \in {"204", "404"} THEN live \ {account_id} ELSE live

\* The accounts delete_account has reported success for, after its call about
\* account_id was answered resp.
GoneAfter(account_id, resp) ==
    IF DeleteAccount(resp) THEN gone \cup {account_id} ELSE gone

\* get_messages(): TRUE when the returned list is non-empty.
GetMessages(resp) == resp = "200"

\* get_message_content(): TRUE when a message object is returned.
GetMessageContent(resp) == resp = "200"

\* ---- handler coroutines ---------------------------------------------------

Idle == [chat |-> 0, kind |-> "none", pc |-> "idle", info |-> {},
         account_info |-> {}, resp |-> "", calls |-> <<>>, result |-> "",
         prompt |-> {}]

NewTask(chat, kind, prompt) ==
    [Idle EXCEPT !.chat = chat, !.kind = kind, !.pc = "get", !.prompt = prompt]

\* The handler sends its last reply_text/edit_message_text and returns.
Returned(task, result) == [task EXCEPT !.pc = "done", !.result = result]

Called(task, call) == [task EXCEPT !.calls = Append(@, call)]

\* The record a handler read, as the one element of task.info.
InfoOf(task) == CHOOSE r \in task.info : TRUE

\* The message a command handler sends with an inline keyboard.
Keyboard(task, kind) ==
    [chat |-> task.chat, kind |-> kind, address |-> InfoOf(task).address]

\* The keyboards on show after the handler's last message: a command handler
\* adds its confirmation (or view) keyboard, a button handler's
\* edit_message_text drops the keyboard of the message it belongs to.
Shown(next) ==
    IF next.pc # "done" THEN prompts
    ELSE IF next.kind = "generate" /\ next.result = "Conflict"
    THEN prompts \cup {Keyboard(next, "generate")}
    ELSE IF next.kind = "delete" /\ next.result = "ConfirmRequested"
    THEN prompts \cup {Keyboard(next, "delete")}
    ELSE IF next.kind = "inbox" /\ next.result = "Messages"
    THEN prompts \cup {Keyboard(next, "view")}
    ELSE prompts \ next.prompt

Remove(seq, t) ==
    [u \in 1..(Len(seq) - 1) |-> IF u < t THEN seq[u] ELSE seq[u + 1]]

\* Some handler other than t is a confirm_generate for chat and in flight.
OtherReplace(t, chat) ==
    \E u \in DOMAIN tasks :
        u # t /\ tasks[u].kind = "confirm_generate" /\ tasks[u].chat = chat

\* peer after a step of handler t (0: a dispatch) to next.
PeerAfter(t, next) ==
    IF t # 0 /\ next.pc = "done" /\ next.kind = "confirm_generate"
             /\ OtherReplace(t, next.chat)
    THEN next
    ELSE IF peer # Idle /\ OtherReplace(0, peer.chat) THEN peer
    ELSE Idle

\* One step of handler t, to the handler state next; a handler that returns
\* leaves tasks, and last shows it in the state it returns to.
Move(t, next) ==
    /\ IF next.pc = "done"
       THEN tasks' = Remove(tasks, t) /\ last' = next
       ELSE tasks' = [tasks EXCEPT ![t] = next] /\ last' = Idle
    /\ peer' = PeerAfter(t, next)

\* A step that changes the keyboards only by the handler's last message.
Step(t, next) == Move(t, next) /\ prompts' = Shown(next)

Init ==
    /\ store = {}
    /\ live = {}
    /\ created = 0
    /\ prompts = {}
    /\ tasks = <<>>
    /\ busy = 0
    /\ started = 0
    /\ last = Idle
    /\ peer = Idle
    /\ deleted = {}
    /\ gone = {}
    /\ cut = {}


\* ---- dispatch of updates ----------------------------------------------------

\* The event loop takes the next update when no provider call holds it.
CanDispatch == busy = 0 /\ started < MaxOps /\ Len(tasks) < Cardinality(Slots)

\* The update's handler coroutine is started.
Dispatch(task) ==
    /\ UNCHANGED <<gone, cut>>
    /\ tasks' = Append(tasks, task)
    /\ started' = started + 1
    /\ last' = Idle
    /\ peer' = PeerAfter(0, task)
    /\ UNCHANGED <<store, live, created, prompts, busy>>

\* A command message: /generate, /delete or /inbox (handlers registered in main).
Command(chat, kind) ==
    /\ CanDispatch
    /\ Dispatch(NewTask(chat, kind, {}))
    /\ deleted' = IF kind = "generate" THEN deleted \ {chat} ELSE deleted

\* The callback data of the buttons a message carries.
ButtonsOf(p) ==
    IF p.kind = "generate" THEN {"confirm_generate", "cancel_generate"}
    ELSE IF p.kind = "delete" THEN {"confirm_delete", "cancel_delete"}
    ELSE {"view_msg"}

\* A button press on a message that still shows its keyboard.
CallbackQuery(p, data) ==
    /\ CanDispatch
    /\ p \in prompts
    /\ data \in ButtonsOf(p)
    /\ Dispatch(NewTask(p.chat, data, {p}))
    /\ deleted' = IF data = "confirm_generate" THEN deleted \ {p.chat} ELSE deleted

\* A handler step runs on the event loop: task t is at pc and the loop is free.
At(t, kind, pc) ==
    t \in DOMAIN tasks /\ busy = 0 /\ tasks[t].kind = kind /\ tasks[t].pc = pc

\* current_email_info = await get_user_email(chat_id)
ReadInfo(t) == [tasks[t] EXCEPT !.info = GetUserEmail(store, tasks[t].chat)]

\* A provider call starts: requests.* holds the event loop until it returns.
EnterCall(t, pc) ==
    /\ UNCHANGED <<gone, cut>>
    /\ Step(t, [tasks[t] EXCEPT !.pc = pc])
    /\ busy' = t
    /\ UNCHANGED <<store, live, created, started>>

\* ---- /generate : generate_email -----------------------------------------------

\* A handler that goes on to create_account whatever the lookup returned.
GenerateGetNoCheck(t) ==
    /\ UNCHANGED <<gone, cut>>
    /\ At(t, "generate", "get")
    /\ Step(t, [ReadInfo(t) EXCEPT !.pc = "create"])
    /\ deleted' = deleted \ {tasks[t].chat}
    /\ UNCHANGED <<store, live, created, busy, started>>

GenerateGet(t) ==
    /\ UNCHANGED <<gone, cut>>
    /\ At(t, "generate", "get")
    /\ Step(t, IF ReadInfo(t).info # {} THEN Returned(ReadInfo(t), "Conflict")
               ELSE [ReadInfo(t) EXCEPT !.pc = "create"])
    /\ deleted' = deleted \ {tasks[t].chat}
    /\ UNCHANGED <<store, live, created, busy, started>>

GenerateCreateCall(t) ==
    /\ At(t, "generate", "create")
    /\ EnterCall(t, "creating")
    /\ deleted' = deleted \ {tasks[t].chat}

\* The return of create_account() into a handler: the provider's new account
\* (if one was created) and the handler's next position.
CreateAccountReturn(t, domains, rc, rt) ==
    /\ UNCHANGED <<gone, cut>>
    /\ busy = t
    /\ tasks[t].pc = "creating"
    /\ LET n == created + 1
           out == CreateAccount(domains, rc, rt, n)
           task == [tasks[t] EXCEPT !.account_info = out.account_info,
                                    !.resp = out.error,
                                    !.calls = @ \o out.calls]
       IN  /\ created' = IF AccountCreated(domains, rc) THEN n ELSE created
           /\ live' = IF AccountCreated(domains, rc) THEN live \cup {n} ELSE live
           /\ Step(t, IF out.account_info # {} THEN [task EXCEPT !.pc = "store"]
                      ELSE Returned(task, "Failed"))
    /\ busy' = 0
    /\ deleted' = deleted \ {tasks[t].chat}
    /\ UNCHANGED <<store, started>>

GenerateCreateReturn(t, domains, rc, rt) ==
    /\ busy = t
    /\ tasks[t].kind = "generate"
    /\ CreateAccountReturn(t, domains, rc, rt)

\* await store_user_email(chat_id, account_info)
StoreAccount(t) ==
    /\ UNCHANGED <<gone, cut>>
    /\ store' = StoreUserEmail(store, tasks[t].chat,
                               CHOOSE r \in tasks[t].account_info : TRUE)
    /\ Step(t, Returned(Called(tasks[t], "store_user_email"), "Provisioned"))
    /\ deleted' = deleted \ {tasks[t].chat}
    /\ UNCHANGED <<live, created, busy, started>>

GenerateStore(t) ==
    /\ At(t, "generate", "store")
    /\ StoreAccount(t)

\* ---- /delete : delete_email ---------------------------------------------------

\* A /delete that removes the local record without asking for confirmation.
DeleteEmailGetNow(t) ==
    /\ UNCHANGED <<gone, cut>>
    /\ At(t, "delete", "get")
    /\ store' = DeleteUserEmailFromDb(store, tasks[t].chat)
    /\ Step(t, IF ReadInfo(t).info = {} THEN Returned(ReadInfo(t), "NothingToDelete")
               ELSE Returned(ReadInfo(t), "Deleted"))
    /\ UNCHANGED <<live, created, busy, started, deleted>>

DeleteEmailGet(t) ==
    /\ UNCHANGED <<gone, cut>>
    /\ At(t, "delete", "get")
    /\ Step(t, IF ReadInfo(t).info = {} THEN Returned(ReadInfo(t), "NothingToDelete")
               ELSE Returned(ReadInfo(t), "ConfirmRequested"))
    /\ UNCHANGED <<store, live, created, busy, started, deleted>>

\* ---- /inbox : inbox -----------------------------------------------------------

InboxGet(t) ==
    /\ UNCHANGED <<gone, cut>>
    /\ At(t, "inbox", "get")
    /\ Step(t, IF ReadInfo(t).info = {} THEN Returned(ReadInfo(t), "NoActiveMailbox")
               ELSE [ReadInfo(t) EXCEPT !.pc = "messages"])
    /\ UNCHANGED <<store, live, created, busy, started, deleted>>

InboxCall(t) ==
    /\ At(t, "inbox", "messages")
    /\ EnterCall(t, "listing")
    /\ UNCHANGED deleted

\* The answers the provider can give for the messages of an account.
MessagesAnswers(account_id) ==
    IF account_id \in live THEN MessagesResponses
    ELSE {"404", "500", "connection_error"}

\* A handler that drops the local record when the provider answers 404.
InboxReturnPurge(t, resp) ==
    /\ UNCHANGED <<gone, cut>>
    /\ busy = t
    /\ tasks[t].kind = "inbox"
    /\ tasks[t].pc = "listing"
    /\ resp \in MessagesAnswers(InfoOf(tasks[t]).id)
    /\ Step(t, Returned(Called([tasks[t] EXCEPT !.resp = resp],
                               "GET /accounts/id/messages"),
                        IF GetMessages(resp) THEN "Messages" ELSE "NoMessages"))
    /\ ProviderAfter(InfoOf(tasks[t]).id, resp)
    /\ store' = IF resp = "404" THEN DeleteUserEmailFromDb(store, tasks[t].chat)
                ELSE store
    /\ busy' = 0
    /\ UNCHANGED <<created, started, deleted>>

InboxReturn(t, resp) ==
    /\ UNCHANGED <<gone, cut>>
    /\ busy = t
    /\ tasks[t].kind = "inbox"
    /\ tasks[t].pc = "listing"
    /\ resp \in MessagesAnswers(InfoOf(tasks[t]).id)
    /\ Step(t, Returned(Called([tasks[t] EXCEPT !.resp = resp],
                               "GET /accounts/id/messages"),
                        IF GetMessages(resp) THEN "Messages" ELSE "NoMessages"))
    /\ ProviderAfter(InfoOf(tasks[t]).id, resp)
    /\ busy' = 0
    /\ UNCHANGED <<store, created, started, deleted>>

\* ---- buttons : handle_callback_query --------------------------------------------

\* query.edit_message_text(...) replaces the message and drops its keyboard.
EditMessage(t) == prompts' = prompts \ tasks[t].prompt

ConfirmDeleteGet(t) ==
    /\ UNCHANGED <<gone, cut>>
    /\ At(t, "confirm_delete", "get")
    /\ Step(t, IF ReadInfo(t).info = {} THEN Returned(ReadInfo(t), "NothingToDelete")
               ELSE [ReadInfo(t) EXCEPT !.pc = "delete"])
    /\ UNCHANGED <<store, live, created, busy, started, deleted>>

ConfirmDeleteCall(t) ==
    /\ At(t, "confirm_delete", "delete")
    /\ EnterCall(t, "deleting")
    /\ UNCHANGED deleted

\* A handler that calls delete_account again when it reports failure.
ConfirmDeleteReturnRetry(t, resp) ==
    /\ busy = t
    /\ tasks[t].kind = "confirm_delete"
    /\ tasks[t].pc = "deleting"
    /\ resp \in DeleteAnswers(InfoOf(tasks[t]).id)
    /\ ProviderAfter(InfoOf(tasks[t]).id, resp)
    /\ gone' = GoneAfter(InfoOf(tasks[t]).id, resp)
    /\ UNCHANGED cut
    /\ LET task == Called([tasks[t] EXCEPT !.resp = resp], "DELETE /accounts/id")
       IN  Step(t, IF DeleteAccount(resp) THEN [task EXCEPT !.pc = "db_delete"]
                   ELSE [task EXCEPT !.pc = "delete"])
    /\ busy' = 0
    /\ UNCHANGED <<store, created, started, deleted>>

ConfirmDeleteReturn(t, resp) ==
    /\ busy = t
    /\ tasks[t].kind = "confirm_delete"
    /\ tasks[t].pc = "deleting"
    /\ resp \in DeleteAnswers(InfoOf(tasks[t]).id)
    /\ ProviderAfter(InfoOf(tasks[t]).id, resp)
    /\ gone' = GoneAfter(InfoOf(tasks[t]).id, resp)
    /\ UNCHANGED cut
    /\ LET task == Called([tasks[t] EXCEPT !.resp = resp], "DELETE /accounts/id")
       IN  Step(t, IF DeleteAccount(resp) THEN [task EXCEPT !.pc = "db_delete"]
                   ELSE Returned(task, "Failed"))
    /\ busy' = 0
    /\ UNCHANGED <<store, created, started, deleted>>

ConfirmDeleteDb(t) ==
    /\ UNCHANGED <<gone, cut>>
    /\ At(t, "confirm_delete", "db_delete")
    /\ store' = DeleteUserEmailFromDb(store, tasks[t].chat)
    /\ Step(t, Returned(Called(tasks[t], "delete_user_email_from_db"), "Deleted"))
    /\ deleted' = deleted \cup {tasks[t].chat}
    /\ UNCHANGED <<live, created, busy, started>>

CancelDelete(t) ==
    /\ UNCHANGED <<gone, cut>>
    /\ At(t, "cancel_delete", "get")
    /\ Step(t, Returned(tasks[t], "Cancelled"))
    /\ UNCHANGED <<store, live, created, busy, started, deleted>>

ConfirmGenerateGet(t) ==
    /\ UNCHANGED <<gone, cut>>
    /\ At(t, "confirm_generate", "get")
    /\ IF ReadInfo(t).info # {}
       THEN Step(t, [ReadInfo(t) EXCEPT !.pc = "delete"])
       ELSE /\ Move(t, [ReadInfo(t) EXCEPT !.pc = "create"])
            /\ EditMessage(t)
    /\ deleted' = deleted \ {tasks[t].chat}
    /\ UNCHANGED <<store, live, created, busy, started>>

ConfirmGenerateDeleteCall(t) ==
    /\ At(t, "confirm_generate", "delete")
    /\ EnterCall(t, "deleting")
    /\ deleted' = deleted \ {tasks[t].chat}

\* A handler that keeps the local record when delete_account reports failure.
ConfirmGenerateDeleteReturnChecked(t, resp) ==
    /\ busy = t
    /\ tasks[t].kind = "confirm_generate"
    /\ tasks[t].pc = "deleting"
    /\ resp \in DeleteAnswers(InfoOf(tasks[t]).id)
    /\ ProviderAfter(InfoOf(tasks[t]).id, resp)
    /\ gone' = GoneAfter(InfoOf(tasks[t]).id, resp)
    /\ UNCHANGED cut
    /\ Step(t, [Called([tasks[t] EXCEPT !.resp = resp], "DELETE /accounts/id")
                   EXCEPT !.pc = IF DeleteAccount(resp) THEN "db_delete"
                                 ELSE "create"])
    /\ busy' = 0
    /\ deleted' = deleted \ {tasks[t].chat}
    /\ UNCHANGED <<store, created, started>>

\* delete_account's result is dropped: the handler goes on to the local delete.
ConfirmGenerateDeleteReturn(t, resp) ==
    /\ busy = t
    /\ tasks[t].kind = "confirm_generate"
    /\ tasks[t].pc = "deleting"
    /\ resp \in DeleteAnswers(InfoOf(tasks[t]).id)
    /\ ProviderAfter(InfoOf(tasks[t]).id, resp)
    /\ gone' = GoneAfter(InfoOf(tasks[t]).id, resp)
    /\ UNCHANGED cut
    /\ Step(t, [Called([tasks[t] EXCEPT !.resp = resp], "DELETE /accounts/id")
                   EXCEPT !.pc = "db_delete"])
    /\ busy' = 0
    /\ deleted' = deleted \ {tasks[t].chat}
    /\ UNCHANGED <<store, created, started>>

\* A handler that leaves the old row to be overwritten by the upsert.
ConfirmGenerateDbSkip(t) ==
    /\ UNCHANGED <<gone, cut>>
    /\ At(t, "confirm_generate", "db_delete")
    /\ store' = store
    /\ Move(t, [Called(tasks[t], "delete_user_email_from_db") EXCEPT !.pc = "create"])
    /\ EditMessage(t)
    /\ deleted' = deleted \ {tasks[t].chat}
    /\ UNCHANGED <<live, created, busy, started>>

\* await delete_user_email_from_db(chat_id), then the "Generating..." edit.
ConfirmGenerateDb(t) ==
    /\ UNCHANGED <<gone, cut>>
    /\ At(t, "confirm_generate", "db_delete")
    /\ store' = DeleteUserEmailFromDb(store, tasks[t].chat)
    /\ Move(t, [Called(tasks[t], "delete_user_email_from_db") EXCEPT !.pc = "create"])
    /\ EditMessage(t)
    /\ deleted' = deleted \ {tasks[t].chat}
    /\ UNCHANGED <<live, created, busy, started>>

ConfirmGenerateCreateCall(t) ==
    /\ At(t, "confirm_generate", "create")
    /\ EnterCall(t, "creating")
    /\ deleted' = deleted \ {tasks[t].chat}

ConfirmGenerateCreateReturn(t, domains, rc, rt) ==
    /\ busy = t
    /\ tasks[t].kind = "confirm_generate"
    /\ CreateAccountReturn(t, domains, rc, rt)

ConfirmGenerateStore(t) ==
    /\ At(t, "confirm_generate", "store")
    /\ StoreAccount(t)

CancelGenerate(t) ==
    /\ UNCHANGED <<gone, cut>>
    /\ At(t, "cancel_generate", "get")
    /\ Step(t, Returned(tasks[t], "Cancelled"))
    /\ UNCHANGED <<store, live, created, busy, started, deleted>>

ViewMsgGet(t) ==
    /\ UNCHANGED <<gone, cut>>
    /\ At(t, "view_msg", "get")
    /\ Step(t, IF ReadInfo(t).info = {} THEN Returned(ReadInfo(t), "SessionExpired")
               ELSE [ReadInfo(t) EXCEPT !.pc = "fetch"])
    /\ UNCHANGED <<store, live, created, busy, started, deleted>>

ViewMsgCall(t) ==
    /\ At(t, "view_msg", "fetch")
    /\ EnterCall(t, "fetching")
    /\ UNCHANGED deleted

\* The answers the provider can give for one message of an account (404: the
\* message or the account is gone).
MessageAnswers(account_id) ==
    IF account_id \in live THEN MessageResponses ELSE MessageResponses \ {"200"}

ViewMsgReturn(t, resp) ==
    /\ UNCHANGED <<gone, cut>>
    /\ busy = t
    /\ tasks[t].kind = "view_msg"
    /\ tasks[t].pc = "fetching"
    /\ resp \in MessageAnswers(InfoOf(tasks[t]).id)
    /\ Step(t, Returned(Called([tasks[t] EXCEPT !.resp = resp],
                               "GET /accounts/id/messages/id"),
                        IF GetMessageContent(resp) THEN "Content" ELSE "Unavailable"))
    /\ busy' = 0
    /\ UNCHANGED <<store, live, created, started, deleted>>

\* ---- restart of the process ---------------------------------------------------------

\* A create_table that starts from an empty table.
CreateTableDrop(s) == {}

\* create_table(): CREATE TABLE IF NOT EXISTS keeps the rows there are.
CreateTable(s) == s

\* What last shows in the state a restart leads to.
Restarted == [Idle EXCEPT !.kind = "restart"]

\* The handlers that have delete_account's success and not yet made the local
\* delete.
CutOff ==
    {t \in DOMAIN tasks : tasks[t].pc = "db_delete" /\ DeleteAccount(tasks[t].resp)}

\* The process stops and main() runs again: post_startup_init runs init_db_pool
\* and create_table.  The coroutines in flight (and a provider call one of them
\* was in, taken as not performed) are lost with the process; the table, the
\* provider's accounts and the messages in the chats are outside it.
Restart ==
    /\ store' = CreateTable(store)
    /\ tasks' = <<>>
    /\ busy' = 0
    /\ last' = Restarted
    /\ peer' = Idle
    /\ cut' = cut \cup {InfoOf(tasks[t]).id : t \in CutOff}
    /\ UNCHANGED <<live, created, prompts, started, deleted, gone>>

\* ---- specification ----------------------------------------------------------------

Commands == {"generate", "delete", "inbox"}

Next ==
    \/ \E chat \in Chats, kind \in Commands : Command(chat, kind)
    \/ \E p \in prompts : \E data \in ButtonsOf(p) : CallbackQuery(p, data)
    \/ \E t \in Slots : GenerateGet(t)
    \/ \E t \in Slots : GenerateCreateCall(t)
    \/ \E t \in Slots, a \in CreateAnswers :
          GenerateCreateReturn(t, a[1], a[2], a[3])
    \/ \E t \in Slots : GenerateStore(t)
    \/ \E t \in Slots : DeleteEmailGet(t)
    \/ \E t \in Slots : InboxGet(t)
    \/ \E t \in Slots : InboxCall(t)
    \/ \E t \in Slots, resp \in MessagesResponses : InboxReturn(t, resp)
    \/ \E t \in Slots : ConfirmDeleteGet(t)
    \/ \E t \in Slots : ConfirmDeleteCall(t)
    \/ \E t \in Slots, resp \in DeleteResponses : ConfirmDeleteReturn(t, resp)
    \/ \E t \in Slots : ConfirmDeleteDb(t)
    \/ \E t \in Slots : CancelDelete(t)
    \/ \E t \in Slots : ConfirmGenerateGet(t)
    \/ \E t \in Slots : ConfirmGenerateDeleteCall(t)
    \/ \E t \in Slots, resp \in DeleteResponses : ConfirmGenerateDeleteReturn(t, resp)
    \/ \E t \in Slots : ConfirmGenerateDb(t)
    \/ \E t \in Slots : ConfirmGenerateCreateCall(t)
    \/ \E t \in Slots, a \in CreateAnswers :
          ConfirmGenerateCreateReturn(t, a[1], a[2], a[3])
    \/ \E t \in Slots : ConfirmGenerateStore(t)
    \/ \E t \in Slots : CancelGenerate(t)
    \/ \E t \in Slots : ViewMsgGet(t)
    \/ \E t \in Slots : ViewMsgCall(t)
    \/ \E t \in Slots, resp \in MessageResponses : ViewMsgReturn(t, resp)
    \/ Restart

Spec == Init /\ [][Next]_vars

\* ---- properties ---------------------------------------------------------------

\* The row store_user_email writes for record r of chat.
Row(chat, r) ==
    [chat_id |-> chat, address |-> r.address, account_id |-> r.id,
     token |-> r.token]

\* The MailboxRecord create_account returns for the provider's account n.
RecordOf(n) ==
    [address |-> AccountData(n).address, id |-> n, token |-> TokenData(n).token]

\* This step is a step of handler t (its return included).
Took(t) ==
    /\ t \in DOMAIN tasks
    /\ \/ Len(tasks') = Len(tasks) /\ tasks'[t] # tasks[t]
       \/ Len(tasks') < Len(tasks) /\ tasks' = Remove(tasks, t)
                                    /\ last'.pc = "done"

\* This step is the return of handler t.
Returns(t) == Took(t) /\ Len(tasks') < Len(tasks)

\* Handler t as this step leaves it.
After(t) == IF Returns(t) THEN last' ELSE tasks'[t]

\* The answers delete_account reports as failure.
Failures == {"500", "connection_error"}

\* C1: the Session Store never holds more than one record for a chat_id,
\* whatever handlers have run and however their steps interleaved.
C1_OneRecordPerChat ==
    \A c \in Chats : Cardinality(RowsOf(store, c)) <= 1

\* An upsert has just overwritten a chat's record: three accounts were created
\* for two chats, both chats hold a record, and a handler returned Provisioned.
C1_Witness ==
    /\ last.result = "Provisioned"
    /\ created >= 3
    /\ \A c \in Chats : Cardinality(RowsOf(store, c)) = 1

\* C2: a /generate handler that looks up its chat while a record is stored for
\* it returns Conflict in that same step, showing the stored address with the
\* confirmation keyboard; it has made no provider call and the store, the
\* provider's accounts and the event loop are as they were.
C2_ProvisionConflict ==
    [][\A t \in DOMAIN tasks :
          (/\ Took(t)
           /\ tasks[t].kind = "generate"
           /\ tasks[t].pc = "get"
           /\ RowsOf(store, tasks[t].chat) # {})
          => /\ Returns(t)
             /\ last'.kind = "generate"
             /\ last'.chat = tasks[t].chat
             /\ last'.result = "Conflict"
             /\ last'.calls = <<>>
             /\ last'.account_info = {}
             /\ \E r \in RowsOf(store, tasks[t].chat) :
                    [chat |-> r.chat_id, kind |-> "generate",
                     address |-> r.address] \in prompts'
             /\ store' = store
             /\ live' = live
             /\ created' = created
             /\ busy' = 0]_vars

\* A second /generate for a chat that was provisioned by the first has returned
\* Conflict.
C2_Witness ==
    /\ last.kind = "generate"
    /\ last.result = "Conflict"
    /\ last.calls = <<>>
    /\ RowsOf(store, last.chat) # {}
    /\ created >= 1

\* C3: when a /generate handler returns Provisioned, the record it reports is
\* one the provider's create_account returned, and the store holds for the chat
\* exactly that record (address, account id and token), so that a lookup
\* returns it.
C3_ProvisionStored ==
    (last.kind = "generate" /\ last.result = "Provisioned")
    => /\ \E n \in 1..created : last.account_info = {RecordOf(n)}
       /\ \A r \in last.account_info :
              /\ RowsOf(store, last.chat) = {Row(last.chat, r)}
              /\ GetUserEmail(store, last.chat) = {r}

\* A /generate handler has just returned Provisioned.
C3_Witness ==
    /\ last.kind = "generate"
    /\ last.result = "Provisioned"
    /\ last.info = {}
    /\ last.account_info # {}
    /\ RowsOf(store, last.chat) # {}

C5_ReplaceDeletesFirst ==
    [][\A t \in DOMAIN tasks :
          (Took(t) /\ tasks[t].kind = "confirm_generate")
          => /\ (tasks[t].pc = "get" /\ RowsOf(store, tasks[t].chat) = {})
                    => (tasks'[t].pc = "create" /\ tasks'[t].calls = <<>>
                        /\ store' = store /\ live' = live)
             /\ (tasks[t].pc = "get" /\ RowsOf(store, tasks[t].chat) # {})
                    => (tasks'[t].pc = "delete" /\ tasks'[t].calls = <<>>
                        /\ tasks'[t].info = GetUserEmail(store, tasks[t].chat)
                        /\ store' = store)
             /\ (tasks[t].pc = "delete")
                    => (tasks'[t].pc = "deleting" /\ store' = store)
             /\ (tasks[t].pc = "deleting")
                    => (/\ tasks'[t].pc = "db_delete"
                        /\ tasks'[t].calls = <<"DELETE /accounts/id">>
                        /\ tasks'[t].resp \in DeleteResponses
                        /\ store' = store)
             /\ (tasks[t].pc = "db_delete")
                    => (/\ tasks'[t].pc = "create"
                        /\ tasks'[t].calls = <<"DELETE /accounts/id",
                                               "delete_user_email_from_db">>
                        /\ RowsOf(store', tasks[t].chat) = {}
                        /\ created' = created)
             /\ (tasks[t].pc = "create")
                    => (/\ tasks'[t].pc = "creating"
                        /\ tasks[t].calls =
                               IF tasks[t].info = {} THEN <<>>
                               ELSE <<"DELETE /accounts/id",
                                      "delete_user_email_from_db">>)]_vars

\* A confirm_generate handler whose delete_account call failed has removed the
\* local record and is about to call create_account.
C5_Witness ==
    \E t \in DOMAIN tasks :
        /\ tasks[t].kind = "confirm_generate"
        /\ tasks[t].pc = "create"
        /\ tasks[t].info # {}
        /\ tasks[t].resp \in Failures
        /\ tasks[t].calls = <<"DELETE /accounts/id", "delete_user_email_from_db">>
        /\ RowsOf(store, tasks[t].chat) = {}

\* C6: a confirm_delete handler whose delete_account call fails (an answer
\* other than 2xx or 404, or a connection error) returns Failed in the step the
\* call returns in, having made that one call and no delete on the store; no
\* step of the handler up to there has changed the store.
C6_DeleteFailureKeepsRecord ==
    [][\A t \in DOMAIN tasks :
          (Took(t) /\ tasks[t].kind = "confirm_delete")
          => /\ (tasks[t].pc \in {"get", "delete", "deleting"}) => store' = store
             /\ (tasks[t].pc = "deleting" /\ After(t).resp \in Failures)
                    => (/\ Returns(t)
                        /\ last'.result = "Failed"
                        /\ last'.info = tasks[t].info
                        /\ last'.calls = <<"DELETE /accounts/id">>
                        /\ live' = live)]_vars

\* A confirm_delete handler has returned Failed and the record it read is still
\* the chat's record.
C6_Witness ==
    /\ last.kind = "confirm_delete"
    /\ last.result = "Failed"
    /\ last.resp \in Failures
    /\ last.info # {}
    /\ GetUserEmail(store, last.chat) = last.info

\* C7: a confirm_delete handler that read a record and whose delete_account
\* call succeeds (2xx, or 404 counted as success) goes on to remove the chat's
\* record and returns Deleted; the removal is the handler's only step that
\* changes the store, and it is taken only after the call returned success.
C7_DeleteSuccessRemoves ==
    [][\A t \in DOMAIN tasks :
          (Took(t) /\ tasks[t].kind = "confirm_delete")
          => /\ (tasks[t].pc = "deleting" /\ After(t).resp \in {"204", "404"})
                    => (/\ ~ Returns(t)
                        /\ tasks'[t].pc = "db_delete"
                        /\ tasks'[t].calls = <<"DELETE /accounts/id">>
                        /\ InfoOf(tasks[t]).id \notin live'
                        /\ store' = store)
             /\ (tasks[t].pc = "db_delete")
                    => (/\ tasks[t].resp \in {"204", "404"}
                        /\ Returns(t)
                        /\ last'.result = "Deleted"
                        /\ last'.calls = <<"DELETE /accounts/id",
                                           "delete_user_email_from_db">>
                        /\ RowsOf(store', tasks[t].chat) = {}
                        /\ \A c \in Chats \ {tasks[t].chat} :
                               RowsOf(store', c) = RowsOf(store, c))
             /\ (store' # store) => tasks[t].pc = "db_delete"]_vars

\* A confirm_delete handler has returned Deleted after a 404 from the provider
\* and the chat has no record.
C7_Witness ==
    /\ last.kind = "confirm_delete"
    /\ last.result = "Deleted"
    /\ last.resp = "404"
    /\ last.info # {}
    /\ RowsOf(store, last.chat) = {}

\* C8: a Delete for a chat with no stored record (the /delete command or the
\* confirm_delete button) returns NothingToDelete in the step of its lookup; it
\* has made no provider call and the store and the provider's accounts are as
\* they were.
C8_DeleteNothing ==
    [][\A t \in DOMAIN tasks :
          (/\ Took(t)
           /\ tasks[t].kind \in {"delete", "confirm_delete"}
           /\ tasks[t].pc = "get"
           /\ RowsOf(store, tasks[t].chat) = {})
          => /\ Returns(t)
             /\ last'.kind = tasks[t].kind
             /\ last'.result = "NothingToDelete"
             /\ last'.calls = <<>>
             /\ store' = store
             /\ live' = live
             /\ busy' = 0]_vars

\* A confirm_delete press for a chat with no record has returned
\* NothingToDelete: it read nothing and called nothing.
C8_Witness ==
    /\ last.kind = "confirm_delete"
    /\ last.result = "NothingToDelete"
    /\ last.info = {}
    /\ last.calls = <<>>
    /\ RowsOf(store, last.chat) = {}

\* C9: once a confirm_delete for a chat has returned Deleted, and until a
\* /generate or confirm_generate handler for the chat takes a step, the chat
\* has no record, and a further Delete that looks up the chat returns
\* NothingToDelete without a provider call and leaves the store as the first
\* Delete left it.
C9_DeleteIdempotent ==
    [][/\ \A c \in deleted : RowsOf(store, c) = {}
       /\ \A t \in DOMAIN tasks :
             (/\ Took(t)
              /\ tasks[t].kind \in {"delete", "confirm_delete"}
              /\ tasks[t].pc = "get"
              /\ tasks[t].chat \in deleted)
             => /\ Returns(t)
                /\ last'.result = "NothingToDelete"
                /\ last'.calls = <<>>
                /\ store' = store
                /\ live' = live]_vars

\* A second confirm_delete for a chat has returned NothingToDelete after the
\* first returned Deleted, with no Provision or Replace in between.
C9_Witness ==
    /\ last.kind = "confirm_delete"
    /\ last.result = "NothingToDelete"
    /\ last.chat \in deleted

\* C10: when two confirm_generate handlers for one chat were in flight together
\* and both have returned Provisioned, the store holds for the chat exactly the
\* record one of the two created, all three fields from that one account, and
\* the account the other created is not left at the provider without a record.
C10_ConcurrentReplace ==
    (/\ last.kind = "confirm_generate"
     /\ peer.kind = "confirm_generate"
     /\ peer.chat = last.chat
     /\ last.result = "Provisioned"
     /\ peer.result = "Provisioned")
    => /\ \E r \in last.account_info \cup peer.account_info :
              RowsOf(store, last.chat) = {Row(last.chat, r)}
       /\ \A r \in last.account_info \cup peer.account_info :
              r.id \in live => Row(last.chat, r) \in store

\* The handlers of the operations Provision, Replace, Delete, CheckInbox and
\* FetchMessage.
Operations ==
    {"generate", "confirm_generate", "confirm_delete", "inbox", "view_msg"}

\* C11: while an operation for a chat has made its first lookup and has not
\* returned, no other operation for the same chat takes a step (each step of
\* an operation is a Session Store access or a provider call).
C11_Serialized ==
    [][\A t, u \in DOMAIN tasks :
          (/\ t # u
           /\ tasks[t].chat = tasks[u].chat
           /\ tasks[t].kind \in Operations
           /\ tasks[u].kind \in Operations
           /\ tasks[t].pc # "get")
          => ~ Took(u)]_vars

\* The next step of handler t, whatever the provider answers.
HandlerStep(t) ==
    \/ GenerateGet(t) \/ GenerateCreateCall(t) \/ GenerateStore(t)
    \/ \E a \in CreateAnswers : GenerateCreateReturn(t, a[1], a[2], a[3])
    \/ DeleteEmailGet(t)
    \/ InboxGet(t) \/ InboxCall(t)
    \/ \E resp \in MessagesResponses : InboxReturn(t, resp)
    \/ ConfirmDeleteGet(t) \/ ConfirmDeleteCall(t) \/ ConfirmDeleteDb(t)
    \/ \E resp \in DeleteResponses : ConfirmDeleteReturn(t, resp)
    \/ CancelDelete(t) \/ CancelGenerate(t)
    \/ ConfirmGenerateGet(t) \/ ConfirmGenerateDeleteCall(t)
    \/ ConfirmGenerateDb(t) \/ ConfirmGenerateCreateCall(t)
    \/ ConfirmGenerateStore(t)
    \/ \E resp \in DeleteResponses : ConfirmGenerateDeleteReturn(t, resp)
    \/ \E a \in CreateAnswers : ConfirmGenerateCreateReturn(t, a[1], a[2], a[3])
    \/ ViewMsgGet(t) \/ ViewMsgCall(t)
    \/ \E resp \in MessageResponses : ViewMsgReturn(t, resp)

\* C12: while a handler for one chat is waiting on a provider HTTP call, the
\* next step of every handler in flight for another chat is enabled.
C12_NonBlocking ==
    \A t, u \in DOMAIN tasks :
        (busy = t /\ tasks[u].chat # tasks[t].chat) => ENABLED HandlerStep(u)

\* C13: a step of a handler for one chat leaves the record of every other
\* chat as it was, presence and content, whatever the provider answers; the
\* account a provider call of the handler is made against is in no other
\* chat's record, and no other chat's account leaves the provider by the step.
C13_Independent ==
    [][\A t \in DOMAIN tasks :
          Took(t)
          => /\ \A c \in Chats \ {tasks[t].chat} :
                    RowsOf(store', c) = RowsOf(store, c)
             /\ (busy' = t /\ tasks[t].info # {})
                    => \A r \in store :
                           r.chat_id # tasks[t].chat
                               => r.account_id # InfoOf(tasks[t]).id
             /\ \A r \in store :
                    (r.chat_id # tasks[t].chat /\ r.account_id \in live)
                        => r.account_id \in live']_vars

\* A confirm_delete for one chat has returned Deleted while the other chat
\* holds a record.
C13_Witness ==
    /\ last.kind = "confirm_delete"
    /\ last.result = "Deleted"
    /\ \E r \in store : r.chat_id # last.chat /\ r.account_id \in live

\* C14: an /inbox handler whose get_messages call is answered 404 gets no
\* messages and returns the no-messages outcome; no step of an /inbox handler
\* changes the store, whatever the provider answers.
C14_InboxPurged ==
    [][\A t \in DOMAIN tasks :
          (Took(t) /\ tasks[t].kind = "inbox")
          => /\ store' = store
             /\ (tasks[t].pc = "listing" /\ After(t).resp = "404")
                    => (/\ ~ GetMessages("404")
                        /\ Returns(t)
                        /\ last'.result = "NoMessages"
                        /\ last'.calls = <<"GET /accounts/id/messages">>)]_vars

\* An /inbox handler has returned the no-messages outcome after a 404, and the
\* record it read is still the chat's record.
C14_Witness ==
    /\ last.kind = "inbox"
    /\ last.resp = "404"
    /\ last.result = "NoMessages"
    /\ last.info # {}
    /\ GetUserEmail(store, last.chat) = last.info

\* C15: with no domain available (get_domains returns an empty list),
\* create_account returns no account and the domain error after the one
\* GET /domains call, whatever the provider would answer to the calls it does
\* not make; the handler it returns to has made neither POST call, no account
\* exists for the call, and the handler ends Failed.
C15_NoDomains ==
    /\ \A rc \in CreateResponses \cup {"none"},
          rt \in TokenResponses \cup {"none"}, n \in 1..(MaxOps + 1) :
           /\ CreateAccount(<<>>, rc, rt, n) =
                  [account_info |-> {}, error |-> "domains",
                   calls |-> <<"GET /domains">>]
           /\ ~ AccountCreated(<<>>, rc)
    /\ (last.resp = "domains")
           => /\ last.kind \in {"generate", "confirm_generate"}
              /\ last.result = "Failed"
              /\ last.account_info = {}
              /\ \A k \in DOMAIN last.calls :
                     last.calls[k] \notin {"POST /accounts", "POST /token"}
              /\ \E k \in DOMAIN last.calls : last.calls[k] = "GET /domains"

\* A /generate handler has ended Failed on the domain error.
C15_Witness ==
    /\ last.kind = "generate"
    /\ last.resp = "domains"
    /\ last.result = "Failed"
    /\ last.calls = <<"GET /domains">>

\* C16: every record in the store is the whole triple (address, account id,
\* token) that one successful create_account call returned for one provider
\* account; no record mixes the fields of two accounts.
C16_WholeTriple ==
    \A r \in store :
        \E n \in 1..created : r = Row(r.chat_id, RecordOf(n))

\* A record has been stored over another one: a chat's record is that of the
\* second account created for it while the first handler's record was stored.
C16_Witness ==
    /\ last.result = "Provisioned"
    /\ last.info = {}
    /\ \E r \in store :
           /\ r.chat_id = last.chat
           /\ r = Row(last.chat, RecordOf(2))
           /\ created = 2
           /\ live = {1, 2}
           /\ \A c \in Chats \ {last.chat} : RowsOf(store, c) = {}

\* C17: a restart of the process (main() again: init_db_pool and create_table)
\* leaves the store exactly as it was, so that the lookup of every chat
\* returns after the restart what it returned before it; what the restart
\* loses is only the coroutines in flight.
C17_Durable ==
    [][(last'.kind = "restart")
          => /\ store' = store
             /\ \A c \in Chats : GetUserEmail(store', c) = GetUserEmail(store, c)
             /\ tasks' = <<>>
             /\ busy' = 0
             /\ prompts' = prompts
             /\ live' = live]_vars

\* The process has just been restarted with a record in the store and a
\* keyboard on show in a chat.
C17_Witness ==
    /\ last.kind = "restart"
    /\ store # {}
    /\ prompts # {}

\* C18: create_account returns an account exactly when POST /accounts and
\* POST /token both succeed, and an error with no account otherwise; a
\* /generate or confirm_generate handler to which it returns no account (also
\* when the provider created the account and the token call failed) returns
\* Failed in that step and has written nothing to the store.
C18_BothCallsNeeded ==
    [][/\ \A a \in CreateAnswers, n \in 1..(MaxOps + 1) :
             LET out == CreateAccount(a[1], a[2], a[3], n)
             IN  /\ (out.account_info # {}) <=> (a[2] = "201" /\ a[3] = "200")
                 /\ (out.account_info = {}) <=> (out.error # "")
                 /\ (out.account_info # {}) => out.account_info = {RecordOf(n)}
       /\ \A t \in DOMAIN tasks :
             (Took(t) /\ tasks[t].pc = "creating")
             => /\ (After(t).account_info = {})
                       => (/\ Returns(t)
                           /\ last'.result = "Failed"
                           /\ last'.resp # ""
                           /\ store' = store
                           /\ \A k \in DOMAIN last'.calls :
                                  last'.calls[k] # "store_user_email")
                /\ (After(t).account_info # {})
                       => (/\ ~ Returns(t)
                           /\ created' = created + 1
                           /\ After(t).account_info = {RecordOf(created')}
                           /\ store' = store)]_vars

\* A confirm_generate handler has ended Failed on the token call: the account
\* it created exists at the provider and the chat has no record.
C18_Witness ==
    /\ last.kind = "confirm_generate"
    /\ last.result = "Failed"
    /\ last.calls[Len(last.calls)] = "POST /token"
    /\ created \in live
    /\ RowsOf(store, last.chat) = {}

\* No call appears twice in the calls a handler has made.
AtMostOnce(calls) ==
    \A j, k \in DOMAIN calls : calls[j] = calls[k] => j = k

\* The answers get_messages reports as no messages because the call failed.
ListFailures == {"404", "500", "connection_error"}

\* C19 as stated: no handler calls a provider endpoint twice, and the first
\* provider call that fails ends the handler with the outcome Failed.
C19_FirstFailureEnds ==
    [][\A t \in DOMAIN tasks :
          Took(t)
          => /\ AtMostOnce(After(t).calls)
             /\ (tasks[t].pc = "creating" /\ After(t).account_info = {})
                    => (Returns(t) /\ last'.result = "Failed")
             /\ (tasks[t].pc = "deleting" /\ After(t).resp \in Failures)
                    => (Returns(t) /\ last'.result = "Failed")
             /\ (tasks[t].pc = "listing" /\ After(t).resp \in ListFailures)
                    => (Returns(t) /\ last'.result = "Failed")]_vars

\* C19, amended: no handler calls a provider endpoint twice; a failed
\* create_account (domain listing, creation or token) ends /generate and
\* confirm_generate with Failed and a failed delete_account ends
\* confirm_delete with Failed; a failed delete_account inside confirm_generate
\* is ignored and the handler goes on to the local delete, and a failed
\* get_messages ends /inbox with the no-messages outcome.
C19_NoRetries ==
    [][\A t \in DOMAIN tasks :
          Took(t)
          => /\ AtMostOnce(After(t).calls)
             /\ (tasks[t].pc = "creating" /\ After(t).account_info = {})
                    => (Returns(t) /\ last'.result = "Failed")
             /\ (tasks[t].kind = "confirm_delete" /\ tasks[t].pc = "deleting"
                 /\ After(t).resp \in Failures)
                    => (Returns(t) /\ last'.result = "Failed")
             /\ (tasks[t].kind = "confirm_generate" /\ tasks[t].pc = "deleting"
                 /\ After(t).resp \in Failures)
                    => (~ Returns(t) /\ tasks'[t].pc = "db_delete")
             /\ (tasks[t].pc = "listing" /\ After(t).resp \in ListFailures)
                    => (Returns(t) /\ last'.result = "NoMessages")]_vars

\* A confirm_generate handler whose delete_account call failed (the old account
\* is still at the provider) has gone on and ended Provisioned, each endpoint
\* called once.
C19_Witness ==
    /\ last.kind = "confirm_generate"
    /\ last.result = "Provisioned"
    /\ \E old \in last.info : old.id \in live
    /\ last.calls = <<"DELETE /accounts/id", "delete_user_email_from_db",
                      "GET /domains", "POST /accounts", "POST /token",
                      "store_user_email">>

\* The handlers that change the store or call a mutating provider endpoint.
Mutating == {"generate", "confirm_generate", "confirm_delete"}

\* C20: the /delete command, /generate for a chat that has a record, and the
\* cancel_delete and cancel_generate presses return in one step that leaves
\* the store and the provider's accounts as they were, with no provider call;
\* a step that changes the store or creates an account is a step of a
\* confirm_delete, confirm_generate or /generate handler (the latter having
\* found no record), and only such handlers call POST or DELETE endpoints.
C20_NoPendingState ==
    [][/\ \A t \in DOMAIN tasks :
             Took(t)
             => /\ (\/ tasks[t].kind \in {"delete", "cancel_delete",
                                          "cancel_generate"}
                    \/ /\ tasks[t].kind = "generate"
                       /\ tasks[t].pc = "get"
                       /\ RowsOf(store, tasks[t].chat) # {})
                       => (/\ Returns(t)
                           /\ last'.calls = <<>>
                           /\ store' = store
                           /\ live' = live
                           /\ created' = created
                           /\ busy' = 0)
                /\ (tasks[t].kind \notin Mutating)
                       => \A k \in DOMAIN After(t).calls :
                              After(t).calls[k] \in
                                  {"GET /accounts/id/messages",
                                   "GET /accounts/id/messages/id"}
       /\ (store' # store \/ created' # created)
             => \E t \in DOMAIN tasks :
                    /\ Took(t)
                    /\ tasks[t].kind \in Mutating
                    /\ tasks[t].kind = "generate" => tasks[t].info = {}]_vars

\* A cancel_generate press has returned and the record the chat had is still
\* stored, its account still at the provider.
C20_Witness ==
    /\ last.kind = "cancel_generate"
    /\ last.result = "Cancelled"
    /\ last.calls = <<>>
    /\ \E r \in RowsOf(store, last.chat) : r.account_id \in live

\* The process starts with a mailbox of chat 1 in the table: the state a
\* successful /generate of an earlier run has left.
InitProvisioned ==
    /\ store = {Row(1, RecordOf(1))}
    /\ live = {1}
    /\ created = 1
    /\ prompts = {}
    /\ tasks = <<>>
    /\ busy = 0
    /\ started = 0
    /\ last = Idle
    /\ peer = Idle
    /\ deleted = {}
    /\ gone = {}
    /\ cut = {}

SpecProvisioned == InitProvisioned /\ [][Next]_vars

\* C21: a confirm_delete press deletes only the mailbox named in the prompt
\* its button belongs to: the account the provider deletes on the handler's
\* call and the record the handler removes from the store are those of the
\* address the prompt shows.
C21_DeletesNamedMailbox ==
    [][\A t \in DOMAIN tasks :
          (Took(t) /\ tasks[t].kind = "confirm_delete")
          => \A p \in tasks[t].prompt :
                 /\ (tasks[t].pc = "deleting" /\ After(t).resp = "204")
                        => InfoOf(tasks[t]).address = p.address
                 /\ (tasks[t].pc = "db_delete")
                        => \A r \in RowsOf(store, tasks[t].chat) :
                               r.address = p.address]_vars

\* No handler for the chat is in flight.
Quiescent(chat) == \A t \in DOMAIN tasks : tasks[t].chat # chat

====
